---- MODULE Spec2Model ----
(***************************************************************************)
(* Lexical path cleaning (src/src/lib.rs, `impl Lexiclean for &Path`).     *)
(*                                                                         *)
(* A path is the sequence of components its `components()` iterator        *)
(* yields.  `lexiclean` makes one left-to-right pass over that sequence,   *)
(* keeping a vector `components` that it uses as a stack, then pushes      *)
(* CurDir if the vector is empty and collects the vector into the result.  *)
(*                                                                         *)
(* The model runs the pass one loop iteration per step, for every          *)
(* component sequence up to MaxLen (the sequences `Path::components` can   *)
(* yield are among them).                                                  *)
(***************************************************************************)
EXTENDS Integers, Sequences, FiniteSets, TLC

\* Longest input sequence explored.
MaxLen == 4

\* Names of the Normal(_) components explored.
Names == {"a", "b"}

------------------------------------------------------------------------------
(* std::path::Component, the five variants matched at lib.rs:34-45 *)

RootDir == [kind |-> "RootDir", name |-> ""]

Prefix == [kind |-> "Prefix", name |-> ""]

CurDir == [kind |-> "CurDir", name |-> ""]

ParentDir == [kind |-> "ParentDir", name |-> ""]

Normal(n) == [kind |-> "Normal", name |-> n]

Component == {RootDir, Prefix, CurDir, ParentDir} \cup {Normal(n) : n \in Names}

\* Every component sequence of length at most n.
SeqUpTo(n) == UNION {[1..k -> Component] : k \in 0..n}

\* Vec::last, on a non-empty vector.
Last(cs) == cs[Len(cs)]

\* Vec::pop, on a non-empty vector.
Pop(cs) == SubSeq(cs, 1, Len(cs) - 1)

------------------------------------------------------------------------------
(* The arms of the match, as functions of the vector and the component *)

\* Mutant: `.` is pushed like a name instead of being dropped.
OnCurDirPushes(cs, c) == Append(cs, c)

\* lib.rs:35   CurDir => {}
OnCurDir(cs, c) == cs

\* lib.rs:42   Some(CurDir) => unreachable!()
Unreachable(cs, c) ==
  /\ c.kind = "ParentDir"
  /\ cs # <<>>
  /\ Last(cs).kind = "CurDir"

\* Mutant: `..` after a name is dropped without popping the name.
OnParentDirKeepsNormal(cs, c) ==
  IF cs = <<>> THEN Append(cs, c)
  ELSE CASE Last(cs).kind = "Normal" -> cs
         [] Last(cs).kind = "ParentDir" -> Append(cs, c)
         [] Last(cs).kind \in {"RootDir", "Prefix"} -> cs
         [] OTHER -> cs

\* Mutant: `..` after a name replaces the name instead of cancelling with it.
OnParentDirReplacesNormal(cs, c) ==
  IF cs = <<>> THEN Append(cs, c)
  ELSE CASE Last(cs).kind = "Normal" -> Append(Pop(cs), c)
         [] Last(cs).kind = "ParentDir" -> Append(cs, c)
         [] Last(cs).kind \in {"RootDir", "Prefix"} -> cs
         [] OTHER -> cs

\* Mutant: an anchor is popped by `..` as if it were a name.
OnParentDirPopsAnchor(cs, c) ==
  IF cs = <<>> THEN Append(cs, c)
  ELSE CASE Last(cs).kind = "Normal" -> Pop(cs)
         [] Last(cs).kind = "ParentDir" -> Append(cs, c)
         [] Last(cs).kind \in {"RootDir", "Prefix"} -> Pop(cs)
         [] OTHER -> cs

\* Mutant: `..` after an anchor is pushed instead of being absorbed.
OnParentDirPushesAfterAnchor(cs, c) ==
  IF cs = <<>> THEN Append(cs, c)
  ELSE CASE Last(cs).kind = "Normal" -> Pop(cs)
         [] Last(cs).kind = "ParentDir" -> Append(cs, c)
         [] Last(cs).kind \in {"RootDir", "Prefix"} -> Append(cs, c)
         [] OTHER -> cs

\* lib.rs:36-43   ParentDir => match components.last() { ... }
\* (the OTHER arm is the unreachable!() of line 42: the vector is left as is
\*  and the panic is recorded by the caller through Unreachable)
OnParentDir(cs, c) ==
  IF cs = <<>> THEN Append(cs, c)
  ELSE CASE Last(cs).kind = "Normal" -> Pop(cs)
         [] Last(cs).kind = "ParentDir" -> Append(cs, c)
         [] Last(cs).kind \in {"RootDir", "Prefix"} -> cs
         [] OTHER -> cs

\* Mutant: the component is inserted at the front of the vector.
OnPushInsertsFirst(cs, c) == <<c>> \o cs

\* lib.rs:44   Normal(_) | Prefix(_) | RootDir => components.push(component)
OnPush(cs, c) == Append(cs, c)

\* lib.rs:34-45   one iteration of the loop body
Step(cs, c) ==
  CASE c.kind = "CurDir" -> OnCurDir(cs, c)
    [] c.kind = "ParentDir" -> OnParentDir(cs, c)
    [] OTHER -> OnPush(cs, c)

\* Mutant: the vector is returned as it is, empty or not.
EmptyResultLeavesEmpty(cs) == cs

\* Mutant: the test is inverted, CurDir is pushed when the vector is not empty.
EmptyResultInverted(cs) == IF cs # <<>> THEN Append(cs, CurDir) ELSE cs

\* lib.rs:48-50   if components.is_empty() { components.push(CurDir) }
EmptyResult(cs) == IF cs = <<>> THEN Append(cs, CurDir) ELSE cs

\* lib.rs:33-46   the whole loop, from the vector cs over the components s;
\* a panic ends the pass where it happens
RECURSIVE Pass(_, _)
Pass(cs, s) ==
  IF s = <<>> THEN cs
  ELSE IF Unreachable(cs, Head(s)) THEN cs
  ELSE Pass(Step(cs, Head(s)), Tail(s))

\* TRUE iff the loop over s, from the vector cs, reaches unreachable!()
RECURSIVE Panics(_, _)
Panics(cs, s) ==
  IF s = <<>> THEN FALSE
  ELSE IF Unreachable(cs, Head(s)) THEN TRUE
  ELSE Panics(Step(cs, Head(s)), Tail(s))

\* lib.rs:28-53   the function, on an input on which it does not panic
lexiclean(s) == EmptyResult(Pass(<<>>, s))

------------------------------------------------------------------------------
(* The pass as a state machine *)

VARIABLES
  input,       \* self.components(), the whole sequence the iterator yields
  i,           \* position of the next component the `for` takes
  components,  \* the vector `components`
  pc           \* "loop" | "done" | "panicked"

vars == <<input, i, components, pc>>

\* lib.rs:31   let mut components = Vec::new();
Init ==
  /\ input \in SeqUpTo(MaxLen)
  /\ i = 1
  /\ components = <<>>
  /\ pc = "loop"

\* lib.rs:35
MatchCurDir ==
  /\ pc = "loop"
  /\ i <= Len(input)
  /\ input[i].kind = "CurDir"
  /\ components' = OnCurDir(components, input[i])
  /\ i' = i + 1
  /\ UNCHANGED <<input, pc>>

\* lib.rs:36-43
MatchParentDir ==
  /\ pc = "loop"
  /\ i <= Len(input)
  /\ input[i].kind = "ParentDir"
  /\ IF Unreachable(components, input[i])
       THEN /\ pc' = "panicked"
            /\ UNCHANGED <<input, i, components>>
       ELSE /\ components' = OnParentDir(components, input[i])
            /\ i' = i + 1
            /\ UNCHANGED <<input, pc>>

\* lib.rs:44
MatchPush ==
  /\ pc = "loop"
  /\ i <= Len(input)
  /\ input[i].kind \in {"Normal", "Prefix", "RootDir"}
  /\ components' = OnPush(components, input[i])
  /\ i' = i + 1
  /\ UNCHANGED <<input, pc>>

\* lib.rs:48-52   the loop is over: empty-result policy, then the vector is
\* collected, in order, into the returned path
Return ==
  /\ pc = "loop"
  /\ i > Len(input)
  /\ components' = EmptyResult(components)
  /\ pc' = "done"
  /\ UNCHANGED <<input, i>>

Next == MatchCurDir \/ MatchParentDir \/ MatchPush \/ Return

Spec == Init /\ [][Next]_vars

------------------------------------------------------------------------------
(* Vocabulary of the properties *)

\* The input components the loop has taken so far.
Consumed == SubSeq(input, 1, i - 1)

\* TRUE iff a is t with zero or more entries deleted.
RECURSIVE IsSubseq(_, _)
IsSubseq(a, t) ==
  IF a = <<>> THEN TRUE
  ELSE IF t = <<>> THEN FALSE
  ELSE IF Head(a) = Head(t) THEN IsSubseq(Tail(a), Tail(t))
  ELSE IsSubseq(a, Tail(t))

Range(s) == {s[k] : k \in 1..Len(s)}

IsCurDir(c) == c.kind = "CurDir"

NotCurDir(c) == c.kind # "CurDir"

\* s without its entries k and k+1.
Without2(s, k) == SubSeq(s, 1, k - 1) \o SubSeq(s, k + 2, Len(s))

Max(a, b) == IF a >= b THEN a ELSE b

------------------------------------------------------------------------------
(* Properties *)

\* C1 - Idempotence: cleaning the result of a finished call again gives that
\* same result, for every component sequence.
C1_Idempotence ==
  pc = "done" =>
    /\ ~Panics(<<>>, components)
    /\ lexiclean(components) = components

\* A call whose result differs from its input (a name was cancelled and an
\* unresolved `..` kept) has returned.
C1_Witness ==
  /\ pc = "done"
  /\ input = <<ParentDir, Normal("a"), Normal("b"), ParentDir>>
  /\ components = <<ParentDir, Normal("a")>>

C3_AnchorFloor ==
  (input # <<>> /\ Head(input).kind \in {"RootDir", "Prefix"} /\ i > 1) =>
    /\ components # <<>>
    /\ Head(components) = Head(input)
    /\ Head(components).kind # "ParentDir"

\* A call on an anchor followed by several `..` has returned the anchor.
C3_Witness ==
  /\ pc = "done"
  /\ Len(input) >= 3
  /\ Head(input).kind \in {"RootDir", "Prefix"}
  /\ \A k \in 2..Len(input) : input[k].kind = "ParentDir"
  /\ components = <<Head(input)>>

\* C4 - Empty-result policy: the step that ends the call returns exactly
\* <<CurDir>> iff the vector is empty when the loop ends; the result is
\* never empty; the empty input and <<Normal(a), ParentDir>> give <<CurDir>>.
C4_EmptyResultPolicy ==
  /\ [](pc = "done" => components # <<>>)
  /\ [](pc = "done" /\ input = <<>> => components = <<CurDir>>)
  /\ [](pc = "done" /\ input = <<Normal("a"), ParentDir>>
          => components = <<CurDir>>)
  /\ [][(pc = "loop" /\ pc' = "done") =>
          (components' = <<CurDir>> <=> components = <<>>)]_vars

\* A name cancelled by `..`, then the policy applied to the empty vector.
C4_Witness ==
  /\ pc = "done"
  /\ input = <<Normal("a"), ParentDir>>
  /\ Pass(<<>>, input) = <<>>
  /\ components = <<CurDir>>

\* C5 - Cancellation: wherever a ParentDir immediately follows a Normal in
\* the input, the result is the result for the input without those two.
C5_Cancellation ==
  pc = "done" =>
    \A k \in 1..(Len(input) - 1) :
      (input[k].kind = "Normal" /\ input[k + 1].kind = "ParentDir") =>
        /\ ~Panics(<<>>, Without2(input, k))
        /\ components = lexiclean(Without2(input, k))

\* A Normal, ParentDir pair between a non-empty p and a non-empty q.
C5_Witness ==
  /\ pc = "done"
  /\ input = <<RootDir, Normal("a"), ParentDir, Normal("b")>>
  /\ components = <<RootDir, Normal("b")>>

\* C6 - CurDir is transparent: the result is the result for the input with
\* every CurDir deleted.
C6_CurDirTransparent ==
  pc = "done" =>
    /\ ~Panics(<<>>, SelectSeq(input, NotCurDir))
    /\ components = lexiclean(SelectSeq(input, NotCurDir))

\* A CurDir between a Normal and the ParentDir that cancels it.
C6_Witness ==
  /\ pc = "done"
  /\ input = <<RootDir, Normal("a"), CurDir, ParentDir>>
  /\ components = <<RootDir>>

\* C7 - The function cannot fail: during the loop the vector holds no
\* CurDir, unreachable!() is never reached, and a CurDir is in a result only
\* when the result is exactly <<CurDir>>.
C7_CannotFail ==
  /\ pc # "panicked"
  /\ pc = "loop" => \A k \in 1..Len(components) : ~IsCurDir(components[k])
  /\ pc = "loop" /\ i <= Len(input) => ~Unreachable(components, input[i])
  /\ pc = "done" /\ CurDir \in Range(components) => components = <<CurDir>>

\* A ParentDir is about to be matched right after a CurDir was taken.
C7_Witness ==
  /\ pc = "loop"
  /\ 1 < i /\ i <= Len(input)
  /\ input[i - 1].kind = "CurDir"
  /\ input[i].kind = "ParentDir"
  /\ components # <<>>

\* C8 (as stated) - Stack bound: at every point of the call the vector holds
\* at most as many entries as the input has components.
C8_Original == Len(components) <= Len(input)

\* C8 (amended) - during the loop the vector holds at most as many entries
\* as the input has components (indeed at most as many as were taken so
\* far); the returned vector holds at most max(1, that number), the one
\* entry being the CurDir pushed for an empty input.
C8_Amended ==
  /\ pc = "loop" => Len(components) <= Len(Consumed)
  /\ pc = "loop" => Len(components) <= Len(input)
  /\ pc = "done" => Len(components) <= Max(1, Len(input))

\* The vector is as long as the input, and the call has returned.
C8_Witness ==
  /\ pc = "done"
  /\ Len(input) = 3
  /\ Len(components) = 3

\* C9 - Unresolved ParentDirs stay at the front: every ParentDir in the
\* vector has only ParentDirs before it, at every step and in every result;
\* an input of one or more ParentDirs is returned unchanged.
C9_ParentDirsInFront ==
  /\ \A k \in 1..Len(components) :
       components[k].kind = "ParentDir" =>
         \A j \in 1..(k - 1) : components[j].kind = "ParentDir"
  /\ (/\ pc = "done"
      /\ input # <<>>
      /\ \A k \in 1..Len(input) : input[k].kind = "ParentDir")
       => components = input

\* A ParentDir was absorbed by an anchor that follows unresolved ParentDirs.
C9_Witness ==
  /\ pc = "done"
  /\ input = <<ParentDir, ParentDir, RootDir, ParentDir>>
  /\ components = <<ParentDir, ParentDir, RootDir>>

\* C10 - Loop invariant: after each iteration, and before the empty-result
\* policy, the vector is a subsequence of the components taken so far;
\* a result that is not the policy's <<CurDir>> is a subsequence of the input.
C10_LoopInvariant ==
  /\ pc = "loop" => IsSubseq(components, Consumed)
  /\ pc = "done" /\ components # <<CurDir>> => IsSubseq(components, input)

\* The loop has taken the whole input, some of it was cancelled, and the
\* policy has not been applied yet.
C10_Witness ==
  /\ pc = "loop"
  /\ i = Len(input) + 1
  /\ Len(input) = MaxLen
  /\ components # <<>>
  /\ Len(components) < Len(input)

====
